---- MODULE Spec2Model ----
(***************************************************************************)
(* Navigation state of MainWindow (src/main.py): the history list, the     *)
(* history pointer, the directory on display in the list view, the address *)
(* bar text, the Back/Forward enablement and the status message, driven by *)
(* the six connected signals and by a file system that changes under it.   *)
(*                                                                         *)
(* A string that holds a path is a sequence of tokens: "" is << >>, "/" is *)
(* <<"/">>, "/a/b" is <<"/","a","b">>, the relative "../a" is <<"..","a">>.*)
(*                                                                         *)
(* status is the message the handler that ran last put on the status bar,  *)
(* "" when it showed none: showMessage is given a timeout of 3 or 5        *)
(* seconds and the message has expired when the next event is handled.     *)
(***************************************************************************)
EXTENDS Integers, Sequences, FiniteSets, TLC

VARIABLES history, history_position, rootPath, address_bar,
          back_enabled, forward_enabled, status, dirs, last

vars == <<history, history_position, rootPath, address_bar,
          back_enabled, forward_enabled, status, dirs, last>>

\* ---------------------------------------------------------------- bounds
\* Longest history the model lets a fresh navigation build.
MaxHist == 3

\* ----------------------------------------------------------- file system
Root == <<"/">>
Home == <<"/", "a">>
Cwd == <<"/", "c">>
NoPath == << >>

\* Every directory that can exist; the environment deletes and re-creates them.
DirUniverse == {Root, Home, <<"/", "a", "b">>, Cwd}

\* Regular files; a file exists while its directory does.
FileUniverse == {<<"/", "a", "f">>}

\* Texts a user can leave in the address bar.  None climbs above "/".
Texts == {NoPath, Root, Home, <<"/", "a", "b">>, Cwd, <<"/", "a", "f">>,
          <<"/", "x">>, <<"..", "a">>}

Parent(p) == IF Len(p) <= 1 THEN p ELSE SubSeq(p, 1, Len(p) - 1)

IsPrefix(p, q) == Len(p) <= Len(q) /\ SubSeq(q, 1, Len(p)) = p

FileExists(p, D) == p \in FileUniverse /\ Parent(p) \in D

\* QDir(path): an empty path is ".", a relative path is taken from the
\* working directory.
AbsText(t) ==
    IF t = NoPath THEN Cwd
    ELSE IF Head(t) = "/" THEN t
    ELSE Cwd \o t

\* Lexical cleaning of the tokens after the leading "/": "." is dropped and
\* ".." drops the component before it.
RECURSIVE Clean(_, _)
Clean(acc, rest) ==
    IF rest = << >> THEN acc
    ELSE IF Head(rest) = "." THEN Clean(acc, Tail(rest))
    ELSE IF Head(rest) = ".." THEN Clean(Parent(acc), Tail(rest))
    ELSE Clean(Append(acc, Head(rest)), Tail(rest))

\* QDir(path_string).absolutePath()
Normalize(t) == Clean(Root, Tail(AbsText(t)))

\* The file system's own walk of the uncleaned path: every component passed
\* through has to be an existing directory.
RECURSIVE WalkOK(_, _, _)
WalkOK(cur, rest, D) ==
    IF rest = << >> THEN TRUE
    ELSE IF Head(rest) = "." THEN WalkOK(cur, Tail(rest), D)
    ELSE IF Head(rest) = ".." THEN WalkOK(Parent(cur), Tail(rest), D)
    ELSE /\ Append(cur, Head(rest)) \in D
         /\ WalkOK(Append(cur, Head(rest)), Tail(rest), D)

\* QDir(path_string).exists(): true for an existing directory only.
Exists(t, D) == WalkOK(Root, Tail(AbsText(t)), D)

\* fs_model.index(path).isValid()
IndexValid(p, D) == p \in D \/ FileExists(p, D)

\* fs_model.isDir(index)
IsDir(p, D) == p \in D

\* --------------------------------------------------------- change_directory
\* The window's navigation fields as one value, so that a handler is a
\* function from the fields before it to the fields after it.
Fields(h, pos, root, addr, back, fwd, msg, out) ==
    [h |-> h, pos |-> pos, root |-> root, addr |-> addr,
     back |-> back, fwd |-> fwd, status |-> msg, out |-> out]

\* self.history_position > 0
CanGoBack(pos) == pos > 0

\* self.history_position < len(self.history) - 1
CanGoForward(pos, h) == pos < Len(h) - 1

\* update_history_buttons_state()
UpdateButtons(st) ==
    [st EXCEPT !.back = CanGoBack(st.pos), !.fwd = CanGoForward(st.pos, st.h)]

\* As SamePathShown, with the same-path test lost.
SamePathShown_Never(root, normalized) == FALSE

\* current_shown_path_index.isValid() and filePath(...) == normalized_path
SamePathShown(root, normalized) == root # NoPath /\ root = normalized

\* self.history = self.history[:self.history_position + 1]
TruncatedHistory(h, pos) ==
    IF pos < Len(h) - 1 THEN SubSeq(h, 1, pos + 1) ELSE h

\* As AppendIfNew, without the comparison with the last entry.
AppendIfNew_Always(h, p) == Append(h, p)

\* if not self.history or self.history[-1] != normalized_path: append
AppendIfNew(h, p) ==
    IF h = << >> \/ h[Len(h)] # p THEN Append(h, p) ELSE h

\* As HistoryAfter, with the replay flag ignored.
HistoryAfter_IgnoresReplay(h, pos, p, is_history_navigation) ==
    AppendIfNew(TruncatedHistory(h, pos), p)

\* The history a successful change of directory leaves behind.
HistoryAfter(h, pos, p, is_history_navigation) ==
    IF is_history_navigation THEN h
    ELSE AppendIfNew(TruncatedHistory(h, pos), p)

\* As LastIndex, off by one.
LastIndex_OffByOne(h) == Len(h)

\* self.history_position = len(self.history) - 1
LastIndex(h) == Len(h) - 1

\* The position a successful change of directory leaves behind.
PositionAfter(h, pos, p, is_history_navigation) ==
    IF is_history_navigation THEN pos
    ELSE LastIndex(HistoryAfter(h, pos, p, is_history_navigation))

\* As RevertedAddress, with the typed text left in place.
RevertedAddress_Keeps(is_history_navigation, root, addr) == addr

\* if not is_history_navigation: self.address_bar.setText(current_path)
RevertedAddress(is_history_navigation, root, addr) ==
    IF is_history_navigation THEN addr ELSE root

\* change_directory(path_string, is_history_navigation) on file system D.
ChangeDirectory(st, path_string, is_history_navigation, D) ==
    LET normalized_path == Normalize(path_string)
        reverted == RevertedAddress(is_history_navigation, st.root, st.addr)
    IN  IF ~Exists(path_string, D)
        THEN [st EXCEPT !.status = "Path does not exist",
                        !.addr = reverted,
                        !.out = "not_exist"]
        ELSE IF SamePathShown(st.root, normalized_path)
        THEN IF is_history_navigation
             THEN [st EXCEPT !.out = "same"]
             ELSE [UpdateButtons(st) EXCEPT !.out = "same"]
        ELSE IF IndexValid(normalized_path, D) /\ IsDir(normalized_path, D)
        THEN UpdateButtons(
               [st EXCEPT
                  !.root = normalized_path,
                  !.addr = normalized_path,
                  !.h = HistoryAfter(st.h, st.pos, normalized_path,
                                     is_history_navigation),
                  !.pos = PositionAfter(st.h, st.pos, normalized_path,
                                        is_history_navigation),
                  !.out = "changed"])
        ELSE IF ~IsDir(normalized_path, D) /\ IndexValid(normalized_path, D)
        THEN [st EXCEPT !.status = "Not a directory",
                        !.addr = reverted,
                        !.out = "not_dir"]
        ELSE [st EXCEPT !.status = "Cannot navigate to",
                        !.addr = reverted,
                        !.out = "cannot"]

\* ------------------------------------------------------------- handlers
\* As GoBackF, with the guard let through at position 0: the position
\* becomes -1 and history[-1] is the last entry.
GoBackF_Wraps(st, D) ==
    IF st.pos > 0
    THEN ChangeDirectory([st EXCEPT !.pos = st.pos - 1],
                         st.h[(st.pos - 1) + 1], TRUE, D)
    ELSE IF st.pos = 0
    THEN ChangeDirectory([st EXCEPT !.pos = -1], st.h[Len(st.h)], TRUE, D)
    ELSE [st EXCEPT !.out = "noop"]

\* go_back()
GoBackF(st, D) ==
    IF CanGoBack(st.pos)
    THEN ChangeDirectory([st EXCEPT !.pos = st.pos - 1],
                         st.h[(st.pos - 1) + 1], TRUE, D)
    ELSE [st EXCEPT !.out = "noop"]

\* go_forward()
GoForwardF(st, D) ==
    IF CanGoForward(st.pos, st.h)
    THEN ChangeDirectory([st EXCEPT !.pos = st.pos + 1],
                         st.h[(st.pos + 1) + 1], TRUE, D)
    ELSE [st EXCEPT !.out = "noop"]

\* As CdUpOK, without the failure at "/".
CdUpOK_NoRootTest(current_path, D) == Parent(AbsText(current_path)) \in D

\* QDir(current_path).cdUp(): fails at "/" and when the parent is gone.
CdUpOK(current_path, D) ==
    LET base == AbsText(current_path)
    IN  base # Root /\ Parent(base) \in D

\* As GoUpF, with the parent visited as a replay.
GoUpF_AsReplay(st, D) ==
    IF CdUpOK(st.root, D)
    THEN ChangeDirectory(st, Parent(AbsText(st.root)), TRUE, D)
    ELSE [st EXCEPT !.status = "Cannot go up from", !.out = "cannot_up"]

\* go_up()
GoUpF(st, D) ==
    IF CdUpOK(st.root, D)
    THEN ChangeDirectory(st, Parent(AbsText(st.root)), FALSE, D)
    ELSE [st EXCEPT !.status = "Cannot go up from", !.out = "cannot_up"]

\* on_address_bar_return_pressed()
AddressBarF(st, D) == ChangeDirectory(st, st.addr, FALSE, D)

\* As ClickF, without the isDir test.
ClickF_NoDirTest(st, index, D) == ChangeDirectory(st, index, FALSE, D)

\* on_list_view_double_clicked(index) and on_tree_view_clicked(index): the
\* index stands for the path the model gives for it.
ClickF(st, index, D) ==
    IF IsDir(index, D)
    THEN ChangeDirectory(st, index, FALSE, D)
    ELSE [st EXCEPT !.out = "noop"]

\* Rows of the list view: the entries of the directory on display, or the
\* top-level "/" row while the root index is invalid.
ListEntries(root, D) ==
    IF root = NoPath THEN {Root}
    ELSE {p \in (D \cup FileUniverse) :
            /\ p # Root
            /\ Parent(p) = root
            /\ IndexValid(p, D)}

\* Rows of the tree view, which is rooted at "/".
TreeEntries(D) == {p \in (D \cup FileUniverse) : p # Root /\ IndexValid(p, D)}

\* ------------------------------------------------------------ the machine
Cur ==
    Fields(history, history_position, rootPath, address_bar,
           back_enabled, forward_enabled, "", "none")

\* The fields become st; op names the handler that ran.
Becomes(st, op) ==
    /\ Len(st.h) <= MaxHist
    /\ history' = st.h
    /\ history_position' = st.pos
    /\ rootPath' = st.root
    /\ address_bar' = st.addr
    /\ back_enabled' = st.back
    /\ forward_enabled' = st.fwd
    /\ status' = st.status
    /\ last' = [op |-> op, out |-> st.out]
    /\ UNCHANGED dirs

\* Directory sets a file system can hold: closed under parents, with "/".
DirSets == {D \in SUBSET DirUniverse :
              Root \in D /\ \A d \in D : Parent(d) \in D}

\* As Constructed, without the closing update_history_buttons_state().
Constructed_NoRefresh(D) ==
    ChangeDirectory(Fields(<< >>, -1, NoPath, NoPath, TRUE, TRUE, "", "none"),
                    Home, FALSE, D)

\* __init__: empty history, position -1, nothing on display, then
\* change_directory(QDir.homePath()) and update_history_buttons_state().
Constructed(D) ==
    UpdateButtons(
      ChangeDirectory(Fields(<< >>, -1, NoPath, NoPath, TRUE, TRUE, "", "none"),
                      Home, FALSE, D))

Init ==
    /\ dirs \in DirSets
    /\ history = Constructed(dirs).h
    /\ history_position = Constructed(dirs).pos
    /\ rootPath = Constructed(dirs).root
    /\ address_bar = Constructed(dirs).addr
    /\ back_enabled = Constructed(dirs).back
    /\ forward_enabled = Constructed(dirs).fwd
    /\ status = Constructed(dirs).status
    /\ last = [op |-> "init", out |-> Constructed(dirs).out]

\* The user edits the text of the address bar.
EditAddressBar ==
    \E t \in Texts :
        /\ t # address_bar
        /\ address_bar' = t
        /\ last' = [op |-> "edit", out |-> "none"]
        /\ status' = ""
        /\ UNCHANGED <<history, history_position, rootPath, back_enabled,
                       forward_enabled, dirs>>

AddressBarReturn == Becomes(AddressBarF(Cur, dirs), "address")

DoubleClick ==
    \E index \in ListEntries(rootPath, dirs) :
        Becomes(ClickF(Cur, index, dirs), "double_click")

TreeClick ==
    \E index \in TreeEntries(dirs) :
        Becomes(ClickF(Cur, index, dirs), "tree_click")

GoUp == Becomes(GoUpF(Cur, dirs), "go_up")

GoBack == Becomes(GoBackF(Cur, dirs), "go_back")

GoForward == Becomes(GoForwardF(Cur, dirs), "go_forward")

\* Another process deletes a directory and what is under it.  It leaves the
\* directory on display and the directories above it alone.
RemoveDir ==
    \E d \in dirs \ {Root} :
        /\ ~IsPrefix(d, rootPath)
        /\ dirs' = {e \in dirs : ~IsPrefix(d, e)}
        /\ last' = [op |-> "fs", out |-> "none"]
        /\ status' = ""
        /\ UNCHANGED <<history, history_position, rootPath, address_bar,
                       back_enabled, forward_enabled>>

\* Another process creates a directory.
CreateDir ==
    \E d \in DirUniverse \ dirs :
        /\ Parent(d) \in dirs
        /\ dirs' = dirs \cup {d}
        /\ last' = [op |-> "fs", out |-> "none"]
        /\ status' = ""
        /\ UNCHANGED <<history, history_position, rootPath, address_bar,
                       back_enabled, forward_enabled>>

Next ==
    \/ EditAddressBar
    \/ AddressBarReturn
    \/ DoubleClick
    \/ TreeClick
    \/ GoUp
    \/ GoBack
    \/ GoForward
    \/ RemoveDir
    \/ CreateDir

Spec == Init /\ [][Next]_vars

TypeOK ==
    /\ history \in Seq(DirUniverse)
    /\ history_position \in -1 .. MaxHist
    /\ rootPath \in DirUniverse \cup {NoPath}
    /\ address_bar \in Texts
    /\ back_enabled \in BOOLEAN
    /\ forward_enabled \in BOOLEAN
    /\ status \in {"", "Path does not exist", "Not a directory",
                   "Cannot navigate to", "Cannot go up from"}
    /\ dirs \in DirSets

\* ---------------------------------------------------------------- claims
\* Handlers that are navigation intents, and those that navigate afresh.
Intents == {"address", "double_click", "tree_click", "go_up",
            "go_back", "go_forward"}
Fresh == {"address", "double_click", "tree_click", "go_up"}
Replay == {"go_back", "go_forward"}

\* C1: after every navigation intent, when the history is not empty, the
\* directory on display is history[history_position].
C1_CurrentIsHistoryEntry ==
    (last.op \in Intents /\ history # << >>)
        => rootPath = history[history_position + 1]

\* C2: the position is a valid index of a non-empty history and is -1
\* exactly when the history is empty.
C2_PositionInRange ==
    /\ history # << >> =>
           (0 <= history_position /\ history_position < Len(history))
    /\ (history_position = -1) <=> (history = << >>)

\* C2 witness: Back has just failed on a deleted directory with history left.
C2_Witness ==
    /\ last = [op |-> "go_back", out |-> "not_exist"]
    /\ Len(history) >= 2

\* C3: a fresh navigation that succeeds to a directory other than the one on
\* display, with the pointer before the last entry, cuts the history after
\* the old position, appends the directory, points at the new last entry and
\* leaves Forward disabled.
C3_BranchTruncation ==
    [][(/\ last'.op \in Fresh
        /\ last'.out = "changed"
        /\ history_position < Len(history) - 1
        /\ rootPath' # rootPath)
         => /\ history' = Append(SubSeq(history, 1, history_position + 1),
                                 rootPath')
            /\ history_position' = Len(history') - 1
            /\ ~forward_enabled']_vars

\* C4: no two adjacent entries of the history are equal.
C4_NoAdjacentDuplicates ==
    \A i \in 1 .. Len(history) - 1 : history[i] # history[i + 1]

\* C4 witness: the directory on display was typed again with history behind it.
C4_Witness ==
    /\ last = [op |-> "address", out |-> "same"]
    /\ Len(history) >= 2

\* C5: after every intent, Back is enabled exactly when the position is
\* above 0 and Forward exactly when it is before the last index.
C5_EnablementCorrect ==
    last.op \in Intents =>
        /\ back_enabled = (history_position > 0)
        /\ forward_enabled = (history_position < Len(history) - 1)

\* C6: a fresh navigation whose path normalizes to the directory on display
\* leaves the history, the position and the directory on display as they
\* were, forward branch included.
C6_RevisitIdempotent ==
    [][(\/ /\ last'.op = "address"
           /\ Exists(address_bar, dirs)
           /\ Normalize(address_bar) = rootPath
        \/ /\ last'.op \in Fresh
           /\ last'.out = "same")
         => /\ history' = history
            /\ history_position' = history_position
            /\ rootPath' = rootPath]_vars

\* C6 witness: the directory on display was typed again while a forward
\* branch existed, and the branch is still there.
C6_Witness ==
    /\ last = [op |-> "address", out |-> "same"]
    /\ history_position < Len(history) - 1

\* C7: Back and Forward leave the history list as it was, and the history
\* gets shorter only by a fresh navigation that succeeds to a directory
\* other than the one on display.
C7_ReplayKeepsHistory ==
    [][/\ last'.op \in Replay => history' = history
       /\ Len(history') < Len(history) =>
              /\ last'.op \in Fresh
              /\ last'.out = "changed"
              /\ rootPath' # rootPath]_vars

\* C7 witness: Back has just moved the display with a longer history kept.
C7_Witness ==
    /\ last = [op |-> "go_back", out |-> "changed"]
    /\ history_position < Len(history) - 1

\* C8: where Back is possible, Back followed at once by Forward restores
\* the directory on display and both enablement flags.
C8_BackForwardSymmetry ==
    CanGoBack(history_position) =>
        LET after == GoForwardF(GoBackF(Cur, dirs), dirs)
        IN  /\ after.root = rootPath
            /\ after.back = back_enabled
            /\ after.fwd = forward_enabled

\* C9: a fresh navigation to a path that does not exist reports a message,
\* leaves the directory on display, the history and the position as they
\* were, and sets the address bar to the directory on display.
C9_NonexistentPathRejected ==
    [][(\/ /\ last'.op = "address"
           /\ ~Exists(address_bar, dirs)
        \/ /\ last'.op \in Fresh
           /\ last'.out = "not_exist")
         => /\ status' = "Path does not exist"
            /\ rootPath' = rootPath
            /\ history' = history
            /\ history_position' = history_position
            /\ address_bar' = rootPath]_vars

\* C9 witness: a typed path was rejected as nonexistent while a directory
\* was on display, and the address bar shows that directory.
C9_Witness ==
    /\ last = [op |-> "address", out |-> "not_exist"]
    /\ rootPath # NoPath
    /\ address_bar = rootPath

\* C10: Back or Forward onto a history entry that no longer exists leaves
\* the history, the position and the directory on display as they were.
C10_FailedReplayIgnored ==
    [][(last'.op \in Replay /\ last'.out = "not_exist")
         => /\ history' = history
            /\ history_position' = history_position
            /\ rootPath' = rootPath]_vars


\* C11: a typed path that exists but is not a directory is reported as
\* "Not a directory", not with the message for a nonexistent path, and
\* leaves the directory on display, the history and the position as they
\* were, with the address bar set to the directory on display.
C11_NotADirectoryReported ==
    [][(/\ last'.op = "address"
        /\ FileExists(Normalize(address_bar), dirs))
         => /\ status' = "Not a directory"
            /\ status' # "Path does not exist"
            /\ rootPath' = rootPath
            /\ history' = history
            /\ history_position' = history_position
            /\ address_bar' = rootPath]_vars


\* Two values of the window's fields agree on the history, the position,
\* the directory on display, the address bar and both enablement flags.
SameNavigation(s, t) ==
    /\ s.h = t.h
    /\ s.pos = t.pos
    /\ s.root = t.root
    /\ s.addr = t.addr
    /\ s.back = t.back
    /\ s.fwd = t.fwd

\* C12: Back at a position of 0 or less and Forward at the last index or
\* beyond change nothing: history, position, directory on display, address
\* bar and enablement stay as they were, whatever the controls' enablement.
C12_NoHistoryIsNoOp ==
    /\ history_position <= 0 => SameNavigation(GoBackF(Cur, dirs), Cur)
    /\ history_position >= Len(history) - 1
           => SameNavigation(GoForwardF(Cur, dirs), Cur)

\* C12 witness: Back was invoked at position 0 while its control was still
\* enabled, and did nothing.
C12_Witness ==
    /\ last = [op |-> "go_back", out |-> "noop"]
    /\ history_position = 0
    /\ back_enabled


\* C13: go_up with "/" on display reports a message and leaves the
\* directory on display, the history, the position and both enablement
\* flags as they were.
C13_UpAtRootRejected ==
    rootPath = Root =>
        LET after == GoUpF(Cur, dirs)
        IN  /\ after.status = "Cannot go up from"
            /\ after.root = rootPath
            /\ after.h = history
            /\ after.pos = history_position
            /\ after.back = back_enabled
            /\ after.fwd = forward_enabled

\* C13 witness: go_up has just been refused with "/" on display.
C13_Witness ==
    /\ last = [op |-> "go_up", out |-> "cannot_up"]
    /\ rootPath = Root
    /\ status = "Cannot go up from"


\* C14: go_up from a directory that has a parent is a fresh navigation: it
\* cuts the history after the position, appends the parent as the new last
\* entry and points at it, also when the parent is the entry just before
\* the current one.
C14_UpIsFresh ==
    [][(last'.op = "go_up" /\ rootPath \notin {NoPath, Root})
         => /\ rootPath' = Parent(rootPath)
            /\ history' = Append(SubSeq(history, 1, history_position + 1),
                                 Parent(rootPath))
            /\ history_position' = Len(history') - 1]_vars

\* C14 witness: go_up from a directory entered from its parent has put the
\* parent after it, as a third entry equal to the first.
C14_Witness ==
    /\ last = [op |-> "go_up", out |-> "changed"]
    /\ Len(history) = 3
    /\ history_position = 2
    /\ history[3] = history[1]
    /\ history[3] = Parent(history[2])


\* C15: Return in the address bar with empty text is treated as a path
\* that does not exist: a message is reported and the directory on display,
\* the history and the position stay as they were.
C15_EmptyTextRejected ==
    [][(last'.op = "address" /\ address_bar = NoPath)
         => /\ status' = "Path does not exist"
            /\ rootPath' = rootPath
            /\ history' = history
            /\ history_position' = history_position]_vars


\* C16: an intent that finds the address bar showing the directory on
\* display, and a Return in the address bar whatever its text, ends with
\* the address bar equal to the path of the directory on display; so a
\* typed spelling of the directory on display that is not canonical is
\* replaced by the canonical path.
C16_AddressBarShowsCurrent ==
    [][(/\ last'.op \in Intents
        /\ (address_bar = rootPath \/ last'.op = "address"))
         => address_bar' = rootPath']_vars


\* C17: right after construction, with an existing home directory the
\* history is exactly <<home>>, the position 0 and home is on display; with
\* no home directory the history is empty and the position -1; Back and
\* Forward are disabled either way.
C17_AfterConstruction ==
    last.op = "init" =>
        /\ Home \in dirs =>
               /\ history = <<Home>>
               /\ history_position = 0
               /\ rootPath = Home
        /\ Home \notin dirs =>
               /\ history = << >>
               /\ history_position = -1
        /\ ~back_enabled
        /\ ~forward_enabled

\* C17 witness: the window has just been constructed without a home
\* directory.
C17_Witness ==
    /\ last.op = "init"
    /\ Home \notin dirs
    /\ history = << >>

\* C18: a double-click in the list view or a click in the tree view on an
\* entry that is not a directory changes none of the history, the position,
\* the directory on display, the address bar and the enablement flags, and
\* does not reach change_directory.
C18_ClickOnFileIsNoOp ==
    \A index \in ListEntries(rootPath, dirs) \cup TreeEntries(dirs) :
        ~IsDir(index, dirs) =>
            LET after == ClickF(Cur, index, dirs)
            IN  /\ SameNavigation(after, Cur)
                /\ after.status = ""
                /\ after.out = "noop"

\* C18 witness: a file in the list view has just been double-clicked.
C18_Witness ==
    /\ last = [op |-> "double_click", out |-> "noop"]
    /\ \E f \in FileUniverse : FileExists(f, dirs) /\ Parent(f) = rootPath

====
